---- MODULE Spec2Model ----
(***************************************************************************)
(* shah/tsd-shell: the tokenizer (commandComponents), the command runner   *)
(* (runShellCommand) and the walk dispatcher (walkShellCommand) of         *)
(* shell.ts, and the service starter (startListenableService).             *)
(*                                                                         *)
(* The repository carries several iterations of the module side by side.  *)
(* The variable rev names the iteration a behaviour runs:                  *)
(*   "part_000"  src/unnamed/part_000   (result transformation, observer)  *)
(*   "part_001"  src/unnamed/part_001   (as part_000, console formatter)   *)
(*   "shell_a"   src/shell.ts:1-268     (observer, no transformation)      *)
(*   "shell_b"   src/shell.ts:270-510   (no observer, no transformation)   *)
(*                                                                         *)
(* An async function is cut at its awaits: one action per synchronous      *)
(* stretch of code.  Strings are sequences of one-character strings.       *)
(***************************************************************************)
EXTENDS Integers, Sequences, FiniteSets, TLC

\* Largest number of entries the traversal yields.
MaxEntries == 2

Revisions == {"part_000", "part_001", "shell_a", "shell_b"}

\* Iterations whose RunShellCommandOptions has enhanceRunShellCommandResult.
HasTransformation(r) == r \in {"part_000", "part_001"}

\* Iterations whose walk options have enhanceWalkEntryContext.
HasContextEnhancer(r) == r \in {"part_000", "part_001"}

\* Iterations whose walk options have a result observer, and its key.
HasObserver(r) == r \in {"part_000", "part_001", "shell_a"}

ObserverKey(r) ==
    IF r = "shell_a" THEN "onRunShellCommand" ELSE "onRunShellCommandResult"

VARIABLES
    rev,        \* the iteration of the module that runs
    call,       \* the top-level call and its arguments
    heap,       \* the Deno.RunOptions objects, by reference
    fileIndex,  \* walkShellCommand: entries visited
    filteredIndex, \* walkShellCommand: entries that passed the filter
    wpc,        \* walkShellCommand: "loop", "await", "resolved", "rejected"; "none" outside a walk
    rpc,        \* runShellCommand: "idle", "status", "output", "stderrOutput", "resolved", "rejected"
    cur,        \* the frame of the runShellCommand invocation in progress
    procs,      \* the child processes spawned so far
    result,     \* what the last runShellCommand resolved with
    walkResult, \* what walkShellCommand resolved with
    log,        \* the calls made so far, in order
    stdoutW,    \* chunks written to Deno.stdout (console.log included)
    stderrW,    \* chunks written to Deno.stderr
    earlierResults, \* the results of the earlier calls, each with its command
                \* specification as it was when the call returned
    toWrite,    \* chunks the child has still to write to its stdout
    pipe,       \* chunks in the stdout pipe of the child, not read yet
    input,      \* commandComponents: the string it is called with
    tokenized,  \* commandComponents: it has returned
    components, \* commandComponents: what it returned
    timeoutMS,  \* waitForListener: its argument
    waited,     \* waitForListener: the milliseconds slept so far
    listenPc,   \* waitForListener: "idle", "connect", "true", "false"
    process,    \* startListenableService: the child process and its handle
    serviceIsRunning, \* startListenableService: the flag of the closure
    statusPromise,    \* startListenableService: "pending" or "settled"
    stopPc,     \* stop: "idle", "await", "resolved"
    events      \* startListenableService: what was done to the process, in order

shellVars == <<rev, call, heap, fileIndex, filteredIndex, wpc, rpc, cur, procs,
               result, walkResult, log, stdoutW, stderrW, earlierResults, toWrite, pipe>>

tokenVars == <<input, tokenized, components>>

serviceVars == <<timeoutMS, waited, listenPc, process, serviceIsRunning,
                 statusPromise, stopPc, events>>

vars == <<shellVars, tokenVars, serviceVars>>

----------------------------------------------------------------------------
(* Objects: a JavaScript object is a function from its own property names. *)

EmptyObject == [k \in {} |-> TRUE]

Has(o, k) == k \in DOMAIN o

\* { ...a, ...b }
Spread(a, b) ==
    [k \in (DOMAIN a) \cup (DOMAIN b) |-> IF k \in DOMAIN b THEN b[k] ELSE a[k]]

\* Mutant: the flag is read under a misspelt name, so it is never seen.
DryRunSetMisspelt(o) == Has(o, "dryrun") /\ o["dryrun"] = TRUE

\* options.dryRun as a condition
DryRunSet(o) == Has(o, "dryRun") /\ o["dryRun"] = TRUE

NoHeader == [headerText |-> "absent", hideBlock |-> FALSE, separatorText |-> "absent"]

\* A caller's function, named by who supplied it.
Fn(name) == [fn |-> name, header |-> NoHeader]

NoResult == [none |-> TRUE]

----------------------------------------------------------------------------
(* commandComponents: the tokens are the matches of the splitting regular  *)
(* expression, scanned left to right: a maximal run of characters that are *)
(* neither whitespace nor a double quote, or a double quote, the           *)
(* characters up to the next double quote, and that quote.  A match with a *)
(* non-empty group (the quoted contents) yields the group, any other match *)
(* yields the matched text.                                                *)

Whitespace == {" ", "\t", "\n"}

Quote == "\""

\* The end of the maximal run of non-blank, non-quote characters from p.
RECURSIVE RunEnd(_, _)
RunEnd(s, p) ==
    IF p + 1 <= Len(s) /\ s[p + 1] \notin Whitespace /\ s[p + 1] # Quote
    THEN RunEnd(s, p + 1)
    ELSE p

\* The position of the first quote at or after p, 0 when there is none.
RECURSIVE NextQuote(_, _)
NextQuote(s, p) ==
    IF p > Len(s) THEN 0
    ELSE IF s[p] = Quote THEN p
    ELSE NextQuote(s, p + 1)

\* Mutant: the scan gives up at a quote that has no closing quote.
RECURSIVE ComponentsStopAtStrayQuote(_, _, _)
ComponentsStopAtStrayQuote(s, p, acc) ==
    IF p > Len(s) THEN acc
    ELSE IF s[p] \notin Whitespace /\ s[p] # Quote
    THEN LET e == RunEnd(s, p)
         IN  ComponentsStopAtStrayQuote(s, e + 1, Append(acc, SubSeq(s, p, e)))
    ELSE IF s[p] = Quote /\ NextQuote(s, p + 1) # 0
    THEN LET q == NextQuote(s, p + 1)
             group == SubSeq(s, p + 1, q - 1)
             whole == SubSeq(s, p, q)
         IN  ComponentsStopAtStrayQuote(s, q + 1,
                        Append(acc, IF Len(group) > 0 THEN group ELSE whole))
    ELSE IF s[p] = Quote THEN acc
    ELSE ComponentsStopAtStrayQuote(s, p + 1, acc)

RECURSIVE Components(_, _, _)
Components(s, p, acc) ==
    IF p > Len(s) THEN acc
    ELSE IF s[p] \notin Whitespace /\ s[p] # Quote
    THEN LET e == RunEnd(s, p)
         IN  Components(s, e + 1, Append(acc, SubSeq(s, p, e)))
    ELSE IF s[p] = Quote /\ NextQuote(s, p + 1) # 0
    THEN LET q == NextQuote(s, p + 1)
             group == SubSeq(s, p + 1, q - 1)
             whole == SubSeq(s, p, q)
         IN  Components(s, q + 1,
                        Append(acc, IF Len(group) > 0 THEN group ELSE whole))
    ELSE Components(s, p + 1, acc)

commandComponents(command) == Components(command, 1, <<>>)

----------------------------------------------------------------------------
(* The run options and the output-formatting option builders.              *)

quietShellOutputOptions ==
    ("onDryRun" :> Fn("quiet")) @@ ("onCmdComplete" :> Fn("quiet"))

\* The hook the block formatter builds around blockHeader.
BlockHook(blockHeader) == [fn |-> "block", header |-> blockHeader]

\* part_000, part_001: each hook is the override's when it has one.
cliVerboseShellBlockOutputOptions(blockHeader, override) ==
    [onDryRun |->
        IF Has(override, "onDryRun") THEN override["onDryRun"]
        ELSE BlockHook(blockHeader),
     onCmdComplete |->
        IF Has(override, "onCmdComplete") THEN override["onCmdComplete"]
        ELSE BlockHook(blockHeader)]

\* shell.ts (both iterations): onDryRun is the formatter's whatever the override.
cliVerboseShellBlockOutputOptionsShell(blockHeader, override) ==
    [onDryRun |-> BlockHook(blockHeader),
     onCmdComplete |->
        IF Has(override, "onCmdComplete") THEN override["onCmdComplete"]
        ELSE BlockHook(blockHeader)]

BlockOutputOptions(r, blockHeader, override) ==
    IF r \in {"part_000", "part_001"}
    THEN cliVerboseShellBlockOutputOptions(blockHeader, override)
    ELSE cliVerboseShellBlockOutputOptionsShell(blockHeader, override)

\* The blockHeader closure walkShellCommand builds for an entry.
WalkBlockHeader(r) ==
    IF r = "part_001"
    THEN [headerText |-> "text", hideBlock |-> FALSE, separatorText |-> "empty"]
    ELSE [headerText |-> "text", hideBlock |-> FALSE, separatorText |-> "text"]

\* runParams is <<command>> (a bare command) or <<command, override>>:
\* the options walkShellCommand passes to runShellCommand.
\* part_000, part_001, shell_a: the override stands in for the walk options.
WalkRunOptions(r, isArray, runParams, walkShellOptions) ==
    IF isArray
    THEN LET rsCmdOptions ==
                 IF Len(runParams) > 1 THEN runParams[2] ELSE walkShellOptions
         IN  Spread(rsCmdOptions,
                    BlockOutputOptions(r, WalkBlockHeader(r), rsCmdOptions))
    ELSE Spread(walkShellOptions,
                BlockOutputOptions(r, WalkBlockHeader(r), walkShellOptions))

\* shell_b: the walk options are spread over the override.
WalkRunOptionsShellB(r, isArray, runParams, walkShellOptions) ==
    IF isArray
    THEN LET rsCmdOptions ==
                 IF Len(runParams) > 1 THEN runParams[2] ELSE walkShellOptions
         IN  Spread(Spread(rsCmdOptions, walkShellOptions),
                    BlockOutputOptions(r, WalkBlockHeader(r), walkShellOptions))
    ELSE Spread(walkShellOptions,
                BlockOutputOptions(r, WalkBlockHeader(r), walkShellOptions))

EffectiveOptions(r, isArray, runParams, walkShellOptions) ==
    IF r = "shell_b"
    THEN WalkRunOptionsShellB(r, isArray, runParams, walkShellOptions)
    ELSE WalkRunOptions(r, isArray, runParams, walkShellOptions)

----------------------------------------------------------------------------
(* Results.                                                                *)

DryRunResult(r, ref, rsCmdOpts) ==
    IF r = "shell_b"
    THEN [isRunShellCommandResult |-> TRUE, isShellCommandDryRunResult |-> TRUE,
          runOpts |-> ref]
    ELSE [isRunShellCommandResult |-> TRUE, isShellCommandDryRunResult |-> TRUE,
          denoRunOpts |-> ref, rsCmdOpts |-> rsCmdOpts]

ExecResult(r, ref, rsCmdOpts, code, stdOut, stdErrOutput) ==
    IF r = "shell_b"
    THEN [isRunShellCommandResult |-> TRUE, isRunShellCommandExecResult |-> TRUE,
          stdOut |-> stdOut, code |-> code, stdErrOutput |-> stdErrOutput,
          runOpts |-> ref]
    ELSE [isRunShellCommandResult |-> TRUE, isRunShellCommandExecResult |-> TRUE,
          stdOut |-> stdOut, code |-> code, stdErrOutput |-> stdErrOutput,
          denoRunOpts |-> ref, rsCmdOpts |-> rsCmdOpts]

isDryRunResult(r) == Has(r, "isShellCommandDryRunResult")

isExecutionResult(r) == Has(r, "isRunShellCommandExecResult")

\* The reference of the command specification a result carries.
RunOptsOf(r) == IF Has(r, "runOpts") THEN r["runOpts"] ELSE r["denoRunOpts"]

\* A caller's function that throws whenever it is called.
Throws(f) == f.fn = "throws"

\* The fields that tell the two variants of a result apart.
VariantTags == {"isShellCommandDryRunResult", "isRunShellCommandExecResult"}

\* A caller's transformation, (r: RunShellCommandResult) => RunShellCommandResult:
\* it returns its argument with a field added, or, the one named "rebuild", an
\* object of the base type built from the other fields of its argument.
Transform(xf, r) ==
    LET kept == IF xf.fn = "rebuild" THEN (DOMAIN r) \ VariantTags ELSE DOMAIN r
    IN  Spread([k \in kept |-> r[k]],
               [enhancedBy |-> xf.fn,
                enhanced |-> IF Has(r, "enhanced") THEN r["enhanced"] + 1 ELSE 1])

\* Mutant: the transformation is applied a second time to its own output.
EnhancedTwice(r, rsCmdOpts, base) ==
    IF HasTransformation(r) /\ Has(rsCmdOpts, "enhanceRunShellCommandResult")
    THEN Transform(rsCmdOpts["enhanceRunShellCommandResult"],
                   Transform(rsCmdOpts["enhanceRunShellCommandResult"], base))
    ELSE base

\* enhanceRunShellCommandResult ? enhanceRunShellCommandResult(r) : r
Enhanced(r, rsCmdOpts, base) ==
    IF HasTransformation(r) /\ Has(rsCmdOpts, "enhanceRunShellCommandResult")
    THEN Transform(rsCmdOpts["enhanceRunShellCommandResult"], base)
    ELSE base

----------------------------------------------------------------------------
(* What a hook writes: [out |-> chunks to stdout, err |-> chunks to stderr] *)

Nothing == [out |-> <<>>, err |-> <<>>]

If(c, chunk) == IF c THEN <<chunk>> ELSE <<>>

\* The formatter's onDryRun; obj is the command specification of the result.
BlockOnDryRun(r, header, obj) ==
    [out |-> If(header.headerText = "text", "header")
             \o If(Has(obj, "cwd"), "cd")
             \o If(Has(obj, "env"), "env")
             \o <<"cmd">>
             \o If(IF r = "part_001" THEN header.separatorText # "absent"
                                     ELSE header.separatorText = "text", "sep"),
     err |-> <<>>]

\* The formatter's onCmdComplete.
BlockOnCmdComplete(r, header, er) ==
    IF r = "part_001"
    THEN [out |-> If(header.headerText = "text", "header")
                  \o If(~header.hideBlock, "stdOut")
                  \o If(header.separatorText # "absent", "sep"),
          err |-> If(~header.hideBlock, "stdErrOutput")]
    ELSE LET chunks == If(header.headerText = "text", "header")
                       \o If(~header.hideBlock,
                             IF er["code"] = 0 THEN "stdOut" ELSE "stdErrOutput")
                       \o If(header.separatorText = "text", "sep")
         IN  IF er["code"] = 0 THEN [out |-> chunks, err |-> <<>>]
                               ELSE [out |-> <<>>, err |-> chunks]

\* The caller's functions and the quiet hooks write nothing.
OnDryRunWrites(r, hook, obj) ==
    IF hook.fn = "block" THEN BlockOnDryRun(r, hook.header, obj) ELSE Nothing

OnCmdCompleteWrites(r, hook, er) ==
    IF hook.fn = "block" THEN BlockOnCmdComplete(r, hook.header, er) ELSE Nothing

----------------------------------------------------------------------------
(* The inputs: the top-level call and its arguments.                       *)

\* Who supplied a hook or a transformation: "callFn" the caller of
\* runShellCommand, "walkFn" the walk options, "entryFn" a per-entry override.
HookChoices(who) ==
    {EmptyObject, quietShellOutputOptions,
     "onDryRun" :> Fn(who), "onCmdComplete" :> Fn(who)}

DryRunChoices == {EmptyObject, "dryRun" :> TRUE, "dryRun" :> FALSE}

TransformationChoices(r, who) ==
    IF HasTransformation(r)
    THEN {EmptyObject, "enhanceRunShellCommandResult" :> Fn(who)}
    ELSE {EmptyObject}

\* RunShellCommandOptions
RunOptionChoices(r, who) ==
    {Spread(Spread(d, h), x) :
        d \in DryRunChoices, h \in HookChoices(who),
        x \in TransformationChoices(r, who)}

\* The command given as a string, and as a Deno.RunOptions object the caller owns.
StringCommand == [kind |-> "string", text |-> <<"g", " ", "s">>]

ObjectCommand == [kind |-> "object", ref |-> 1]

CallerRunOptions == [cmd |-> <<<<"g">>, <<"s">>>>, cwd |-> "dir"]

RunCalls(r) ==
    {[fn |-> "runShellCommand", command |-> c, rsCmdOpts |-> o] :
        c \in {StringCommand, ObjectCommand}, o \in RunOptionChoices(r, "callFn")}

\* The entry filter is the set of the entries it rejects.
FilterChoices(n) == {EmptyObject} \cup {"entryFilter" :> rej : rej \in SUBSET (1..n)}

ObserverChoices(r) ==
    IF HasObserver(r)
    THEN {EmptyObject, ObserverKey(r) :> Fn("observer")}
    ELSE {EmptyObject}

ContextEnhancerChoices(r) ==
    IF HasContextEnhancer(r)
    THEN {EmptyObject, "enhanceWalkEntryContext" :> Fn("walkFn")}
    ELSE {EmptyObject}

\* WalkShellCommandOptions: the run options with the walk's own.
WalkOptionChoices(r, n) ==
    {Spread(Spread(Spread(o, f), b), e) :
        o \in {Spread(d, h) : d \in {EmptyObject, "dryRun" :> TRUE},
                              h \in HookChoices("walkFn")},
        f \in FilterChoices(n), b \in ObserverChoices(r),
        e \in ContextEnhancerChoices(r)}

\* WalkShellCommandSupplier: what it returns for every entry.
SupplierChoices(r) ==
    {[returns |-> "bare", override |-> EmptyObject]}
    \cup {[returns |-> "pair", override |-> o] : o \in RunOptionChoices(r, "entryFn")}

WalkCalls(r) ==
    UNION {{[fn |-> "walkShellCommand", walkEntries |-> n, command |-> c,
             walkShellOptions |-> w] :
               c \in SupplierChoices(r), w \in WalkOptionChoices(r, n)} :
           n \in 0..MaxEntries}

IsWalk == call.fn = "walkShellCommand"

\* How a child process ends: its exit code and what it wrote.
ChildOutcomes ==
    {[code |-> 0, out |-> "data", err |-> ""],
     [code |-> 1, out |-> "data", err |-> "data"],
     [code |-> 128, out |-> "", err |-> "data"]}

NoContext == [we |-> 0, relPath |-> 0, index |-> 0]

NoFrame ==
    [i |-> 0, ctx |-> NoContext, opts |-> EmptyObject, ref |-> 0,
     code |-> -1, stdOut |-> "", stdErrOutput |-> ""]

\* A log entry: the call ev made for entry i (0: a direct call of
\* runShellCommand), by or to the function fn, with the number n (a context's
\* index, an exit code) and the argument arg (a result, or the run options).
Ev(ev, i, fn, n, arg) == [ev |-> ev, i |-> i, fn |-> fn, n |-> n, arg |-> arg]

\* The first call, of a child whose output fits the pipe.
FirstCall ==
    /\ earlierResults = <<>>
    /\ toWrite = 0
    /\ pipe = 0

\* Nothing has called commandComponents on its own.
TokensIdle ==
    /\ input = <<>>
    /\ tokenized = FALSE
    /\ components = <<>>

\* No service has been started.
ServiceIdle ==
    /\ timeoutMS = 0
    /\ waited = 0
    /\ listenPc = "idle"
    /\ process = [state |-> "none", killed |-> FALSE, closed |-> 0]
    /\ serviceIsRunning = FALSE
    /\ statusPromise = "pending"
    /\ stopPc = "idle"
    /\ events = <<>>

Init ==
    /\ TokensIdle
    /\ ServiceIdle
    /\ rev \in Revisions
    /\ call \in RunCalls(rev) \cup WalkCalls(rev)
    /\ heap = IF call.fn = "runShellCommand" /\ call.command.kind = "object"
              THEN <<CallerRunOptions>> ELSE <<>>
    /\ fileIndex = 0
    /\ filteredIndex = 0
    /\ wpc = IF call.fn = "walkShellCommand" THEN "loop" ELSE "none"
    /\ rpc = "idle"
    /\ cur = NoFrame
    /\ procs = <<>>
    /\ result = NoResult
    /\ walkResult = NoResult
    /\ log = <<>>
    /\ stdoutW = <<>>
    /\ stderrW = <<>>
    /\ FirstCall

----------------------------------------------------------------------------
(* runShellCommand.                                                        *)

\* The hook call, as a log entry, when the options have the hook.
HookEvent(name, i, rsCmdOpts, r) ==
    IF Has(rsCmdOpts, name)
    THEN <<Ev(name, i, rsCmdOpts[name].fn, 0, r)>>
    ELSE <<>>

\* The transformation call, as a log entry: its argument is the base result.
TransformEvent(i, rsCmdOpts, base) ==
    IF HasTransformation(rev) /\ Has(rsCmdOpts, "enhanceRunShellCommandResult")
    THEN <<Ev("enhanceRunShellCommandResult", i,
              rsCmdOpts["enhanceRunShellCommandResult"].fn, 0, base)>>
    ELSE <<>>

\* The options have a transformation and it throws.
TransformationThrows(r, rsCmdOpts) ==
    /\ HasTransformation(r)
    /\ Has(rsCmdOpts, "enhanceRunShellCommandResult")
    /\ Throws(rsCmdOpts["enhanceRunShellCommandResult"])

\* The options have the hook and it throws.
HookThrows(rsCmdOpts, name) == Has(rsCmdOpts, name) /\ Throws(rsCmdOpts[name])

\* The transformation or a hook (who) throws: runShellCommand rejects there.
\* log1 is the log up to the call that threw.
RunThrows(log1, i, who) ==
    /\ log' = Append(log1, Ev("throw", i, who, 0, NoResult))
    /\ rpc' = "rejected"
    /\ UNCHANGED <<result, stdoutW, stderrW>>

\* Mutant: the dry-run branch falls through to the onCmdComplete call.
DryRunFallsThrough(i, ref, rsCmdOpts, heap1, entered) ==
    LET drr == DryRunResult(rev, ref, rsCmdOpts)
        res == Enhanced(rev, rsCmdOpts, drr)
        w == IF Has(rsCmdOpts, "onDryRun")
             THEN OnDryRunWrites(rev, rsCmdOpts["onDryRun"], heap1[RunOptsOf(res)])
             ELSE Nothing
    IN  /\ heap' = heap1
        /\ procs' = procs
        /\ result' = res
        /\ rpc' = "resolved"
        /\ log' = entered \o TransformEvent(i, rsCmdOpts, drr)
                          \o HookEvent("onDryRun", i, rsCmdOpts, res)
                          \o HookEvent("onCmdComplete", i, rsCmdOpts, res)
                          \o <<Ev("resolve", i, "", 0, res)>>
        /\ stdoutW' = stdoutW \o w.out
        /\ stderrW' = stderrW \o w.err

\* if (rsCmdOpts.dryRun) { ... }: the result is built, transformed, handed to
\* onDryRun and returned.
DryRun(i, ref, rsCmdOpts, heap1, entered) ==
    LET drr == DryRunResult(rev, ref, rsCmdOpts)
        res == Enhanced(rev, rsCmdOpts, drr)
        w == IF Has(rsCmdOpts, "onDryRun")
             THEN OnDryRunWrites(rev, rsCmdOpts["onDryRun"], heap1[RunOptsOf(res)])
             ELSE Nothing
    IN  /\ heap' = heap1
        /\ procs' = procs
        /\ IF TransformationThrows(rev, rsCmdOpts)
           THEN RunThrows(entered \o TransformEvent(i, rsCmdOpts, drr), i,
                          "enhanceRunShellCommandResult")
           ELSE IF HookThrows(rsCmdOpts, "onDryRun")
           THEN RunThrows(entered \o TransformEvent(i, rsCmdOpts, drr)
                                  \o HookEvent("onDryRun", i, rsCmdOpts, res),
                          i, "onDryRun")
           ELSE /\ result' = res
                /\ rpc' = "resolved"
                /\ log' = entered \o TransformEvent(i, rsCmdOpts, drr)
                                  \o HookEvent("onDryRun", i, rsCmdOpts, res)
                                  \o <<Ev("resolve", i, "", 0, res)>>
                /\ stdoutW' = stdoutW \o w.out
                /\ stderrW' = stderrW \o w.err

\* else { stdout = stderr = "piped"; Deno.run(denoRunOpts); await proc.status() ...
\* Deno.run throws when the child cannot be spawned.
Spawn(i, ref, heap1, entered) ==
    /\ heap' = [heap1 EXCEPT ![ref] = Spread(@, [stdout |-> "piped", stderr |-> "piped"])]
    /\ result' = result
    /\ stdoutW' = stdoutW
    /\ stderrW' = stderrW
    /\ \E spawned \in BOOLEAN :
          IF spawned
          THEN /\ procs' = Append(procs, [i |-> i, state |-> "running", code |-> -1,
                                          out |-> "", err |-> "", closed |-> 0])
               /\ rpc' = "status"
               /\ log' = entered \o <<Ev("spawn", i, "", 0, NoResult)>>
          ELSE /\ procs' = procs
               /\ rpc' = "rejected"
               /\ log' = entered \o <<Ev("spawnFailed", i, "", 0, NoResult)>>

\* cmd.join(" ")
RECURSIVE Join(_)
Join(args) ==
    IF Len(args) = 0 THEN <<>>
    ELSE IF Len(args) = 1 THEN args[1]
    ELSE args[1] \o <<" ">> \o Join(Tail(args))

\* Mutant: a structured command is joined and split again.
DenoRunOptsRetokenized(objects, command) ==
    IF command.kind = "string"
    THEN Append(objects, [cmd |-> commandComponents(command.text)])
    ELSE [objects EXCEPT ![command.ref].cmd = commandComponents(Join(@))]

\* typeof command === "string" ? { cmd: commandComponents(command) } : command
\* A string gets a new object, a structured command is used as it is.
DenoRunOpts(objects, command) ==
    IF command.kind = "string"
    THEN Append(objects, [cmd |-> commandComponents(command.text)])
    ELSE objects

\* The call of runShellCommand up to its first await; pre is the log on entry.
RunShellCommand(i, ctx, command, rsCmdOpts, pre) ==
    LET isString == command.kind = "string"
        heap1 == DenoRunOpts(heap, command)
        ref == IF isString THEN Len(heap1) ELSE command.ref
        entered == pre \o <<Ev("runShellCommand", i, "", 0, rsCmdOpts)>>
    IN  /\ cur' = [i |-> i, ctx |-> ctx, opts |-> rsCmdOpts, ref |-> ref,
                   code |-> -1, stdOut |-> "", stdErrOutput |-> ""]
        /\ IF DryRunSet(rsCmdOpts)
           THEN DryRun(i, ref, rsCmdOpts, heap1, entered)
           ELSE Spawn(i, ref, heap1, entered)

\* A direct call of runShellCommand.
CallRun ==
    /\ call.fn = "runShellCommand"
    /\ rpc = "idle"
    /\ RunShellCommand(0, NoContext, call.command, call.rsCmdOpts, log)
    /\ UNCHANGED <<tokenVars, serviceVars, earlierResults, toWrite, pipe, rev, call, fileIndex, filteredIndex, wpc, walkResult>>

\* The child process of the invocation in progress.
Proc == procs[Len(procs)]

\* The child exits, with some exit code and some output.
ChildExit ==
    /\ Len(procs) > 0
    /\ Proc.state = "running"
    /\ toWrite = 0
    /\ \E o \in ChildOutcomes :
          /\ procs' = [procs EXCEPT ![Len(procs)] =
                          [@ EXCEPT !.state = "exited", !.code = o.code,
                                    !.out = o.out, !.err = o.err]]
          /\ log' = Append(log, Ev("exit", Proc.i, "", o.code, NoResult))
    /\ UNCHANGED <<tokenVars, serviceVars, earlierResults, toWrite, pipe, rev, call, heap, fileIndex, filteredIndex, wpc, rpc, cur,
                   result, walkResult, stdoutW, stderrW>>

\* Mutant: a nonzero exit code is thrown as an error.
AwaitStatusThrowsOnFailure ==
    /\ rpc = "status"
    /\ Proc.state = "exited"
    /\ cur' = [cur EXCEPT !.code = Proc.code]
    /\ rpc' = IF Proc.code = 0 THEN "output" ELSE "rejected"
    /\ UNCHANGED <<tokenVars, serviceVars, earlierResults, toWrite, pipe, rev, call, heap, fileIndex, filteredIndex, wpc, procs,
                   result, walkResult, log, stdoutW, stderrW>>

\* const { code } = await proc.status();
AwaitStatus ==
    /\ rpc = "status"
    /\ Proc.state = "exited"
    /\ cur' = [cur EXCEPT !.code = Proc.code]
    /\ rpc' = "output"
    /\ UNCHANGED <<tokenVars, serviceVars, earlierResults, toWrite, pipe, rev, call, heap, fileIndex, filteredIndex, wpc, procs,
                   result, walkResult, log, stdoutW, stderrW>>

\* const stdOut = await proc.output();
AwaitOutput ==
    /\ rpc = "output"
    /\ cur' = [cur EXCEPT !.stdOut = Proc.out]
    /\ pipe' = 0
    /\ rpc' = "stderrOutput"
    /\ UNCHANGED <<tokenVars, serviceVars, earlierResults, toWrite, rev, call, heap, fileIndex, filteredIndex, wpc, procs,
                   result, walkResult, log, stdoutW, stderrW>>

\* part_000, part_001: the handle is closed, then the result is transformed,
\* handed to onCmdComplete and returned.
Complete(cer) ==
    LET i == cur.i
        res == Enhanced(rev, cur.opts, cer)
        w == IF Has(cur.opts, "onCmdComplete")
             THEN OnCmdCompleteWrites(rev, cur.opts["onCmdComplete"], res)
             ELSE Nothing
    IN  /\ procs' = [procs EXCEPT ![Len(procs)].closed = @ + 1]
        /\ IF TransformationThrows(rev, cur.opts)
           THEN RunThrows(log \o <<Ev("close", i, "", 0, NoResult)>>
                              \o TransformEvent(i, cur.opts, cer),
                          i, "enhanceRunShellCommandResult")
           ELSE IF HookThrows(cur.opts, "onCmdComplete")
           THEN RunThrows(log \o <<Ev("close", i, "", 0, NoResult)>>
                              \o TransformEvent(i, cur.opts, cer)
                              \o HookEvent("onCmdComplete", i, cur.opts, res),
                          i, "onCmdComplete")
           ELSE /\ result' = res
                /\ rpc' = "resolved"
                /\ log' = log \o <<Ev("close", i, "", 0, NoResult)>>
                              \o TransformEvent(i, cur.opts, cer)
                              \o HookEvent("onCmdComplete", i, cur.opts, res)
                              \o <<Ev("resolve", i, "", 0, res)>>
                /\ stdoutW' = stdoutW \o w.out
                /\ stderrW' = stderrW \o w.err

\* shell.ts: the result is handed to onCmdComplete, then the handle is closed.
CompleteShell(cer) ==
    LET i == cur.i
        w == IF Has(cur.opts, "onCmdComplete")
             THEN OnCmdCompleteWrites(rev, cur.opts["onCmdComplete"], cer)
             ELSE Nothing
    IN  IF HookThrows(cur.opts, "onCmdComplete")
        THEN /\ procs' = procs
             /\ RunThrows(log \o HookEvent("onCmdComplete", i, cur.opts, cer),
                          i, "onCmdComplete")
        ELSE /\ procs' = [procs EXCEPT ![Len(procs)].closed = @ + 1]
             /\ result' = cer
             /\ rpc' = "resolved"
             /\ log' = log \o HookEvent("onCmdComplete", i, cur.opts, cer)
                           \o <<Ev("close", i, "", 0, NoResult)>>
                           \o <<Ev("resolve", i, "", 0, cer)>>
             /\ stdoutW' = stdoutW \o w.out
             /\ stderrW' = stderrW \o w.err

\* const stdErrOutput = await proc.stderrOutput(); and the rest of the call.
AwaitStderrOutput ==
    /\ rpc = "stderrOutput"
    /\ LET cer == ExecResult(rev, cur.ref, cur.opts, cur.code, cur.stdOut, Proc.err)
       IN  IF HasTransformation(rev) THEN Complete(cer) ELSE CompleteShell(cer)
    /\ cur' = [cur EXCEPT !.stdErrOutput = Proc.err]
    /\ UNCHANGED <<tokenVars, serviceVars, earlierResults, toWrite, pipe, rev, call, heap, fileIndex, filteredIndex, wpc, walkResult>>

----------------------------------------------------------------------------
(* walkShellCommand.                                                       *)

\* The key of the walk-result enhancer, "" when the iteration has none.
WalkResultEnhancerKey(r) ==
    IF r \in {"part_000", "part_001"} THEN "enhanceWalkResult"
    ELSE IF r = "shell_a" THEN "enhanceResult"
    ELSE ""

\* let context = { we: we, relPath: relPath, index: filteredIndex }
WalkEntryContext(we, index) == [we |-> we, relPath |-> we, index |-> index]

\* What a caller's enhanceWalkEntryContext returns: a new context, the one it
\* was given with a field added.
EnhanceContext(f, context) == Spread(context, [contextEnhancedBy |-> f.fn])

\* The walk options have a context enhancer.
Enhancing(r, walkShellOptions) ==
    HasContextEnhancer(r) /\ Has(walkShellOptions, "enhanceWalkEntryContext")

\* Mutant: the index is the count of the entries visited, not of those passed.
EntryContextCountsVisited(r, we, index, walkShellOptions) ==
    LET context == WalkEntryContext(we, we - 1)
    IN  IF Enhancing(r, walkShellOptions)
        THEN EnhanceContext(walkShellOptions["enhanceWalkEntryContext"], context)
        ELSE context

\* Mutant: the enhancer is called and what it returns is dropped.
EntryContextNotReplaced(r, we, index, walkShellOptions) ==
    WalkEntryContext(we, index)

\* The context of the entry: the enhancer's return value replaces it.
EntryContext(r, we, index, walkShellOptions) ==
    LET context == WalkEntryContext(we, index)
    IN  IF Enhancing(r, walkShellOptions)
        THEN EnhanceContext(walkShellOptions["enhanceWalkEntryContext"], context)
        ELSE context

\* The entry filter is the set of the entries it rejects and, negated, of the
\* entries it throws at.
FilterThrows(walkShellOptions, context) ==
    /\ Has(walkShellOptions, "entryFilter")
    /\ (0 - context.we) \in walkShellOptions["entryFilter"]

\* Mutant: the filter's answer is ignored, every entry is run.
PassesFilterAlways(walkShellOptions, context) == TRUE

\* !entryFilter || entryFilter(context)
PassesFilter(walkShellOptions, context) ==
    \/ ~Has(walkShellOptions, "entryFilter")
    \/ context.we \notin walkShellOptions["entryFilter"]

\* Mutant: runShellCommand is not awaited, the loop goes on while it runs.
LoopRunsDuringAwait == wpc \in {"loop", "await"}

\* The walk is in its for loop, not suspended at await runShellCommand(...).
LoopRuns == wpc = "loop"

\* Mutant: the exception is caught in the loop and the walk goes on.
WalkThrowsSwallowed(log1, we, who) ==
    /\ log' = Append(log1, Ev("throw", we, who, 0, NoResult))
    /\ wpc' = wpc
    /\ fileIndex' = fileIndex + 1
    /\ UNCHANGED <<heap, rpc, cur, procs, result, stdoutW, stderrW>>

\* A caller's function throws in the loop, outside any try: walkShellCommand
\* rejects there.  log1 is the log up to the call that threw.
WalkThrows(log1, we, who) ==
    /\ log' = Append(log1, Ev("throw", we, who, 0, NoResult))
    /\ wpc' = "rejected"
    /\ fileIndex' = fileIndex
    /\ UNCHANGED <<heap, rpc, cur, procs, result, stdoutW, stderrW>>

\* One turn of the for loop, up to the await of runShellCommand (or to the end
\* of the turn for an entry the filter rejects).
WalkEntry ==
    /\ IsWalk
    /\ LoopRuns
    /\ fileIndex < call.walkEntries
    /\ LET w == call.walkShellOptions
           we == fileIndex + 1
           context == EntryContext(rev, we, filteredIndex, w)
           enhanceEv ==
               IF Enhancing(rev, w)
               THEN <<Ev("enhanceWalkEntryContext", we, "", filteredIndex,
                         WalkEntryContext(we, filteredIndex))>>
               ELSE <<>>
           filterEv ==
               IF Has(w, "entryFilter")
               THEN <<Ev("entryFilter", we, "", context.index, context)>>
               ELSE <<>>
           commandEv == <<Ev("command", we, "", context.index, context)>>
       IN  IF Enhancing(rev, w) /\ Throws(w["enhanceWalkEntryContext"])
           THEN WalkThrows(log \o enhanceEv, we, "enhanceWalkEntryContext")
           ELSE IF FilterThrows(w, context)
           THEN WalkThrows(log \o enhanceEv \o filterEv, we, "entryFilter")
           ELSE IF PassesFilter(w, context) /\ call.command.returns = "throws"
           THEN WalkThrows(log \o enhanceEv \o filterEv \o commandEv, we, "command")
           ELSE IF PassesFilter(w, context)
           THEN LET isArray == call.command.returns = "pair"
                    runParams == IF isArray
                                 THEN <<StringCommand, call.command.override>>
                                 ELSE <<StringCommand>>
                IN  /\ RunShellCommand(we, context, runParams[1],
                           EffectiveOptions(rev, isArray, runParams, w),
                           log \o enhanceEv \o filterEv \o commandEv)
                    /\ wpc' = "await"
                    /\ fileIndex' = fileIndex
           ELSE /\ fileIndex' = fileIndex + 1
                /\ log' = log \o enhanceEv \o filterEv
                /\ UNCHANGED <<heap, wpc, rpc, cur, procs, result, stdoutW, stderrW>>
    /\ UNCHANGED <<tokenVars, serviceVars, earlierResults, toWrite, pipe, rev, call, filteredIndex, walkResult>>

\* The argument of the observer: { ...context, execResult: rscResult }, and
\* in part_001 { ...context, ...rscResult }.
Observed(r, context, rscResult) ==
    IF r = "part_001"
    THEN Spread(context, rscResult)
    ELSE Spread(context, [execResult |-> rscResult])

\* runShellCommand has resolved: the observer is called and both counters move.
WalkResume ==
    /\ IsWalk
    /\ wpc = "await"
    /\ rpc = "resolved"
    /\ LET w == call.walkShellOptions
       IN  log' = IF HasObserver(rev) /\ Has(w, ObserverKey(rev))
                  THEN Append(log, Ev("observe", cur.i, w[ObserverKey(rev)].fn,
                                      cur.ctx.index, Observed(rev, cur.ctx, result)))
                  ELSE log
    /\ filteredIndex' = filteredIndex + 1
    /\ fileIndex' = fileIndex + 1
    /\ wpc' = "loop"
    /\ rpc' = "idle"
    /\ UNCHANGED <<tokenVars, serviceVars, earlierResults, toWrite, pipe, rev, call, heap, cur, procs, result, walkResult, stdoutW, stderrW>>

\* Mutant: the rejection is caught and the walk goes on to the next entry.
WalkAbortSwallowed ==
    /\ IsWalk
    /\ wpc = "await"
    /\ rpc = "rejected"
    /\ wpc' = "loop"
    /\ rpc' = "idle"
    /\ fileIndex' = fileIndex + 1
    /\ UNCHANGED <<tokenVars, serviceVars, earlierResults, toWrite, pipe, rev, call, heap, filteredIndex, cur, procs,
                   result, walkResult, log, stdoutW, stderrW>>

\* runShellCommand has rejected: nothing catches it, walkShellCommand rejects.
WalkAbort ==
    /\ IsWalk
    /\ wpc = "await"
    /\ rpc = "rejected"
    /\ wpc' = "rejected"
    /\ UNCHANGED <<tokenVars, serviceVars, earlierResults, toWrite, pipe, rev, call, heap, fileIndex, filteredIndex, rpc, cur, procs,
                   result, walkResult, log, stdoutW, stderrW>>

\* Mutant: the count of the entries visited is reported for both counters.
WalkResultCountsVisited(r, total, filtered) ==
    IF r \in {"part_000", "part_001"}
    THEN [isWalkShellCommandResult |-> TRUE, totalEntriesEncountered |-> total,
          filteredEntriesEncountered |-> total]
    ELSE [totalEntriesProcessed |-> total, filteredEntriesProcessed |-> total]

\* The result of the walk.
WalkResult(r, total, filtered) ==
    IF r \in {"part_000", "part_001"}
    THEN [isWalkShellCommandResult |-> TRUE, totalEntriesEncountered |-> total,
          filteredEntriesEncountered |-> filtered]
    ELSE [totalEntriesProcessed |-> total, filteredEntriesProcessed |-> filtered]

\* The counters of a walk result, whatever the iteration names them.
TotalOf(r) ==
    IF Has(r, "totalEntriesEncountered") THEN r["totalEntriesEncountered"]
    ELSE r["totalEntriesProcessed"]

FilteredOf(r) ==
    IF Has(r, "filteredEntriesEncountered") THEN r["filteredEntriesEncountered"]
    ELSE r["filteredEntriesProcessed"]

\* The traversal is exhausted: the walk result is built, enhanced when the walk
\* options have the enhancer, and returned.
WalkReturn ==
    /\ IsWalk
    /\ LoopRuns
    /\ fileIndex = call.walkEntries
    /\ \E enhance \in {FALSE, WalkResultEnhancerKey(rev) # ""} :
          LET r == WalkResult(rev, fileIndex, filteredIndex)
          IN  walkResult' = IF enhance THEN Spread(r, [enhanced |-> TRUE]) ELSE r
    /\ wpc' = "resolved"
    /\ UNCHANGED <<tokenVars, serviceVars, earlierResults, toWrite, pipe, rev, call, heap, fileIndex, filteredIndex, rpc, cur, procs,
                   result, log, stdoutW, stderrW>>

----------------------------------------------------------------------------

Next ==
    \/ CallRun
    \/ ChildExit
    \/ AwaitStatus
    \/ AwaitOutput
    \/ AwaitStderrOutput
    \/ WalkEntry
    \/ WalkResume
    \/ WalkAbort
    \/ WalkReturn

Spec == Init /\ [][Next]_vars

----------------------------------------------------------------------------
(* Reading the log.                                                        *)

\* The positions of the calls ev made for entry i.
At(ev, i) == {p \in DOMAIN log : log[p].ev = ev /\ log[p].i = i}

\* The entries (0: the direct call) runShellCommand was called for.
Invocations == {log[p].i : p \in {q \in DOMAIN log : log[q].ev = "runShellCommand"}}

\* The options runShellCommand was called with for entry i.
OptionsOf(i) == log[CHOOSE p \in At("runShellCommand", i) : TRUE].arg

\* The invocation for entry i has returned.
Resolved(i) == At("resolve", i) # {}

\* What the invocation for entry i returned.
ReturnedOf(i) == log[CHOOSE p \in At("resolve", i) : TRUE].arg

----------------------------------------------------------------------------
\* C1: an invocation of runShellCommand that completes with both hooks
\* configured has fired exactly one of them, exactly once: onDryRun when the
\* dryRun flag is set, onCmdComplete when it is not.
C1_ExactlyOneHook ==
    \A i \in Invocations :
        LET o == OptionsOf(i)
            dry == Cardinality(At("onDryRun", i))
            done == Cardinality(At("onCmdComplete", i))
        IN  (Resolved(i) /\ Has(o, "onDryRun") /\ Has(o, "onCmdComplete")) =>
                IF Has(o, "dryRun") /\ o["dryRun"] = TRUE
                THEN dry = 1 /\ done = 0
                ELSE dry = 0 /\ done = 1

\* A walk that has completed a dry run for one entry and, both hooks being
\* configured, fired onDryRun for it.
C1_Witness ==
    /\ IsWalk
    /\ \E i \in Invocations :
          /\ Resolved(i)
          /\ Has(OptionsOf(i), "onCmdComplete")
          /\ At("onDryRun", i) # {}

\* C2: a run with dryRun set spawns no child and returns a result without an
\* exit code; a walk whose options set dryRun and whose supplier returns bare
\* commands spawns no child for any entry.
C2_DryRunNeverExecutes ==
    /\ \A i \in Invocations :
          LET o == OptionsOf(i)
          IN  (Has(o, "dryRun") /\ o["dryRun"] = TRUE) =>
                  /\ At("spawn", i) = {}
                  /\ At("spawnFailed", i) = {}
                  /\ \A k \in DOMAIN procs : procs[k].i # i
                  /\ Resolved(i) => ~Has(ReturnedOf(i), "code")
    /\ ( /\ IsWalk
         /\ Has(call.walkShellOptions, "dryRun")
         /\ call.walkShellOptions["dryRun"] = TRUE
         /\ call.command.returns = "bare" ) =>
            /\ procs = <<>>
            /\ \A p \in DOMAIN log : log[p].ev \notin {"spawn", "spawnFailed"}

\* A dry-run walk over bare commands that has been through two entries.
C2_Witness ==
    /\ IsWalk
    /\ Has(call.walkShellOptions, "dryRun")
    /\ call.command.returns = "bare"
    /\ filteredIndex = 2
    /\ wpc = "resolved"

\* C3: whatever the exit code of the child, the invocation is not rejected;
\* once it has returned, the result is an exec result with that code, and
\* onCmdComplete, when configured, was called once, with that result.
C3_ExitCodeIsNotAnError ==
    \A k \in DOMAIN procs :
        LET i == procs[k].i
        IN  procs[k].state = "exited" =>
              /\ ~(cur.i = i /\ rpc = "rejected")
              /\ (cur.i = i /\ rpc = "status") => ENABLED AwaitStatus
              /\ Resolved(i) =>
                    /\ isExecutionResult(ReturnedOf(i))
                    /\ ReturnedOf(i)["code"] = procs[k].code
                    /\ Has(OptionsOf(i), "onCmdComplete") =>
                          /\ Cardinality(At("onCmdComplete", i)) = 1
                          /\ \A p \in At("onCmdComplete", i) :
                                log[p].arg = ReturnedOf(i)

\* A run whose child exited with code 128 has returned and told onCmdComplete.
C3_Witness ==
    \E k \in DOMAIN procs :
        /\ procs[k].state = "exited"
        /\ procs[k].code = 128
        /\ Resolved(procs[k].i)
        /\ At("onCmdComplete", procs[k].i) # {}

\* The entries the filter of the walk rejects.
Rejected ==
    IF Has(call.walkShellOptions, "entryFilter")
    THEN call.walkShellOptions["entryFilter"]
    ELSE {}

\* The walk options have a result observer.
Observing ==
    HasObserver(rev) /\ Has(call.walkShellOptions, ObserverKey(rev))

\* C4: when the child cannot be spawned, runShellCommand rejects: it returns
\* no result and calls neither hook.  In a walk nothing is called after the
\* failure: no observer, no later entry, and the walk returns no result.
C4_SpawnFailurePropagates ==
    \A p \in DOMAIN log :
        log[p].ev = "spawnFailed" =>
            LET i == log[p].i
            IN  /\ rpc = "rejected"
                /\ ~Resolved(i)
                /\ At("onDryRun", i) = {}
                /\ At("onCmdComplete", i) = {}
                /\ At("observe", i) = {}
                /\ p = Len(log)
                /\ IsWalk =>
                      /\ wpc \in {"await", "rejected"}
                      /\ fileIndex = i - 1
                      /\ walkResult = NoResult

\* A walk rejected by a spawn failure with entries still to visit.
C4_Witness ==
    /\ IsWalk
    /\ wpc = "rejected"
    /\ fileIndex + 1 < call.walkEntries
    /\ log[Len(log)].ev = "spawnFailed"

\* C5: a walk over N entries of which the filter rejects K returns
\* total = N and filtered = N - K, and has called the observer N - K times.
C5_WalkTotals ==
    (IsWalk /\ wpc = "resolved") =>
        LET n == call.walkEntries
            k == Cardinality(Rejected)
            observed == {p \in DOMAIN log : log[p].ev = "observe"}
        IN  /\ TotalOf(walkResult) = n
            /\ FilteredOf(walkResult) = n - k
            /\ Observing => Cardinality(observed) = n - k

\* A walk over two entries, one of them rejected, with [command, options]
\* pairs and an observer, has returned.
C5_Witness ==
    /\ IsWalk
    /\ wpc = "resolved"
    /\ call.walkEntries = 2
    /\ Cardinality(Rejected) = 1
    /\ Observing
    /\ call.command.returns = "pair"
    /\ \E p \in DOMAIN log : log[p].ev = "observe"

\* C6: at most one child process is outstanding, and nothing is done for an
\* entry (its command supplied, runShellCommand called, its child spawned)
\* before every earlier entry's run has fired its hook, returned, and been
\* handed to the observer.
C6_Sequential ==
    /\ Cardinality({k \in DOMAIN procs : procs[k].closed = 0}) <= 1
    /\ IsWalk =>
          \A p \in DOMAIN log :
              log[p].ev \in {"command", "runShellCommand", "spawn", "spawnFailed"} =>
                  \A i \in Invocations :
                      i < log[p].i =>
                          /\ \E q \in At("resolve", i) : q < p
                          /\ \E q \in At("onDryRun", i) \cup At("onCmdComplete", i) : q < p
                          /\ Observing => \E q \in At("observe", i) : q < p

\* The child of the second entry is spawned after the first entry's result
\* was observed.
C6_Witness ==
    /\ IsWalk
    /\ At("spawn", 2) # {}
    /\ At("spawn", 1) # {}
    /\ At("observe", 1) # {}

\* C7: the k-th call of the observer (counting from 0) carries index k, and is
\* for the k-th entry that passes the filter: the calls come in traversal
\* order and a rejected entry uses no index.
C7_ObservedIndex ==
    LET observed == {p \in DOMAIN log : log[p].ev = "observe"}
    IN  \A p \in observed :
            LET earlier == {q \in observed : q < p}
                passedBefore == {e \in 1..(log[p].i - 1) : e \notin Rejected}
            IN  /\ log[p].n = Cardinality(earlier)
                /\ log[p].n = Cardinality(passedBefore)
                /\ \A q \in earlier : log[q].i < log[p].i

\* The observer is called with index 0 for the second entry, the first one
\* having been rejected.
C7_Witness ==
    /\ IsWalk
    /\ 1 \in Rejected
    /\ \E p \in At("observe", 2) : log[p].n = 0

\* The run options a walk can set for all entries or override for one.
RunOptionKeys ==
    {"dryRun", "enhanceRunShellCommandResult", "onDryRun", "onCmdComplete"}

\* C8: with a [command, override] pair, runShellCommand is called with the
\* override merged over the walk options: an option the override sets has the
\* override's value, an option only the walk sets keeps the walk's value; so a
\* walk with dryRun set and an override that does not mention dryRun spawns
\* no child.
C8_OverrideMergedOverWalkOptions ==
    (IsWalk /\ call.command.returns = "pair") =>
        LET override == call.command.override
            w == call.walkShellOptions
        IN  /\ \A i \in Invocations : \A key \in RunOptionKeys :
                  LET o == OptionsOf(i)
                  IN  /\ Has(override, key) =>
                            (Has(o, key) /\ o[key] = override[key])
                      /\ (~Has(override, key) /\ Has(w, key)) =>
                            (Has(o, key) /\ o[key] = w[key])
            /\ (Has(w, "dryRun") /\ w["dryRun"] = TRUE /\ ~Has(override, "dryRun")) =>
                  /\ procs = <<>>
                  /\ \A p \in DOMAIN log : log[p].ev \notin {"spawn", "spawnFailed"}

\* The options walkShellCommand hands to the block formatter as its override.
FormatterOverride ==
    IF call.command.returns = "pair" /\ rev # "shell_b"
    THEN call.command.override
    ELSE call.walkShellOptions

\* The walk is given quietShellOutputOptions: in its options, with bare
\* commands, or as the override of every entry.
GivenQuiet ==
    LET given == IF call.command.returns = "pair" THEN call.command.override
                 ELSE call.walkShellOptions
    IN  /\ Has(given, "onDryRun") /\ given["onDryRun"] = Fn("quiet")
        /\ Has(given, "onCmdComplete") /\ given["onCmdComplete"] = Fn("quiet")

\* C9: each hook of the options the block formatter returns is the
\* override's when the override has one, and the formatter's own only when it
\* has none; so a walk given quietShellOutputOptions writes nothing, dry run
\* or not.
C9_OverrideHooksWin ==
    IsWalk =>
        /\ \A i \in Invocations : \A hook \in {"onDryRun", "onCmdComplete"} :
              LET o == OptionsOf(i)
              IN  IF Has(FormatterOverride, hook)
                  THEN o[hook] = FormatterOverride[hook]
                  ELSE o[hook].fn = "block"
        /\ GivenQuiet => (stdoutW = <<>> /\ stderrW = <<>>)

\* C10: the hook that fires and the caller get the same value.  With a
\* transformation configured it is called once, on the base result and before
\* the hook, and that value is what it returned; with none configured the
\* value is the base result.
C10_HookGetsFinalResult ==
    \A i \in Invocations :
        Resolved(i) =>
            LET o == OptionsOf(i)
                returned == ReturnedOf(i)
                transforms == At("enhanceRunShellCommandResult", i)
                hooks == At("onDryRun", i) \cup At("onCmdComplete", i)
            IN  /\ \A h \in hooks : log[h].arg = returned
                /\ IF Has(o, "enhanceRunShellCommandResult")
                   THEN /\ Cardinality(transforms) = 1
                        /\ \A x \in transforms :
                              /\ ~Has(log[x].arg, "enhanced")
                              /\ log[x].arg["rsCmdOpts"] = o
                              /\ returned =
                                   Transform(o["enhanceRunShellCommandResult"], log[x].arg)
                              /\ \A h \in hooks : x < h
                   ELSE /\ transforms = {}
                        /\ ~Has(returned, "enhanced")

\* An executed run with a transformation has returned and told onCmdComplete.
C10_Witness ==
    \E i \in Invocations :
        /\ Resolved(i)
        /\ At("enhanceRunShellCommandResult", i) # {}
        /\ At("onCmdComplete", i) # {}
        /\ Has(ReturnedOf(i), "enhanced")

----------------------------------------------------------------------------
\* C15: for an entry the filter rejects, only the count of the entries visited
\* moves: the supplier is not called for it, runShellCommand is not called and
\* no child is spawned for it, no hook and no observer fires for it, and the
\* filtered counter stays, so that the next entry is given the same index.
C15_RejectedEntryOnlyCounts ==
    IsWalk =>
        /\ filteredIndex = Cardinality((1..fileIndex) \ Rejected)
        /\ \A e \in Rejected \cap (1..fileIndex) :
              /\ At("command", e) = {}
              /\ e \notin Invocations
              /\ At("spawn", e) = {}
              /\ At("spawnFailed", e) = {}
              /\ \A k \in DOMAIN procs : procs[k].i # e
              /\ At("onDryRun", e) = {}
              /\ At("onCmdComplete", e) = {}
              /\ At("observe", e) = {}
              /\ \A p \in At("entryFilter", e) : \A q \in At("entryFilter", e + 1) :
                    log[q].n = log[p].n

\* The filter was asked about both entries of a walk and rejected the first;
\* the second has been run to its end.
C15_Witness ==
    /\ IsWalk
    /\ 1 \in Rejected
    /\ At("entryFilter", 1) # {}
    /\ At("entryFilter", 2) # {}
    /\ Resolved(2)
    /\ fileIndex = 2

\* C20: with enhanceWalkEntryContext configured, it is called once for every
\* entry visited, on the context the loop built and before the filter; what
\* it returns is the context the filter and the supplier are called with and
\* whose fields the observer is given, whether the filter rejects the entry
\* or not.
C20_EnhancedContextReplaces ==
    (IsWalk /\ Enhancing(rev, call.walkShellOptions)) =>
        LET f == call.walkShellOptions["enhanceWalkEntryContext"]
        IN  /\ \A e \in 1..fileIndex :
                  Cardinality(At("enhanceWalkEntryContext", e)) = 1
            /\ \A e \in 1..call.walkEntries :
                  \A x \in At("enhanceWalkEntryContext", e) :
                      LET enhanced == EnhanceContext(f, log[x].arg)
                      IN  /\ log[x].arg = WalkEntryContext(e, log[x].n)
                          /\ e \in Rejected => At("entryFilter", e) # {}
                          /\ \A p \in At("entryFilter", e) \cup At("command", e) :
                                x < p /\ log[p].arg = enhanced
                          /\ \A p \in At("observe", e) :
                                \A key \in DOMAIN enhanced :
                                    Has(log[p].arg, key) /\ log[p].arg[key] = enhanced[key]
            /\ \A p \in DOMAIN log :
                  log[p].ev \in {"entryFilter", "command", "observe"} =>
                      At("enhanceWalkEntryContext", log[p].i) # {}

\* With an enhancer configured, the filter has rejected the first entry and
\* the observer has been told of the second.
C20_Witness ==
    /\ IsWalk
    /\ Enhancing(rev, call.walkShellOptions)
    /\ 1 \in Rejected
    /\ At("enhanceWalkEntryContext", 1) # {}
    /\ At("entryFilter", 1) # {}
    /\ At("command", 2) # {}
    /\ At("observe", 2) # {}

----------------------------------------------------------------------------
(* commandComponents called on its own.                                    *)

\* Longest string tried in full.
MaxLen == 5

Alphabet == {"a", " ", Quote}

\* The strings of the tests (shell_test.ts) and of the documentation.
ExampleInputs ==
    {<<"a", " ", Quote, "b", " ", "c", Quote, " ", "d">>,
     <<"g", "i", "t", " ", "s", "t", "a", "t", "u", "s", " ", "-", "s">>}

Inputs == UNION {[1..n -> Alphabet] : n \in 0..MaxLen} \cup ExampleInputs

\* Neither runShellCommand nor walkShellCommand is called.
ShellIdle ==
    /\ rev = "part_000"
    /\ call = [fn |-> "none"]
    /\ heap = <<>>
    /\ fileIndex = 0
    /\ filteredIndex = 0
    /\ wpc = "none"
    /\ rpc = "idle"
    /\ cur = NoFrame
    /\ procs = <<>>
    /\ result = NoResult
    /\ walkResult = NoResult
    /\ log = <<>>
    /\ stdoutW = <<>>
    /\ stderrW = <<>>
    /\ FirstCall

InitComponents ==
    /\ ShellIdle
    /\ ServiceIdle
    /\ input \in Inputs
    /\ tokenized = FALSE
    /\ components = <<>>

\* commandComponents(input) is called and returns.
Tokenize ==
    /\ ~tokenized
    /\ components' = commandComponents(input)
    /\ tokenized' = TRUE
    /\ UNCHANGED <<input, shellVars, serviceVars>>

NextComponents == Tokenize

SpecComponents == InitComponents /\ [][NextComponents]_vars

\* The splitter the documentation describes, scanning left to right: a token
\* is a maximal run of characters that are neither whitespace nor a double
\* quote, or what stands between a double quote and the next double quote.
RECURSIVE ReferenceTokens(_, _, _)
ReferenceTokens(s, p, acc) ==
    IF p > Len(s) THEN acc
    ELSE IF s[p] = Quote
    THEN LET later == {q \in (p + 1)..Len(s) : s[q] = Quote}
         IN  IF later = {} THEN ReferenceTokens(s, p + 1, acc)
             ELSE LET q == CHOOSE q \in later : \A o \in later : q <= o
                  IN  ReferenceTokens(s, q + 1, Append(acc, SubSeq(s, p + 1, q - 1)))
    ELSE IF s[p] \in Whitespace THEN ReferenceTokens(s, p + 1, acc)
    ELSE LET stops == {q \in p..Len(s) : s[q] \in Whitespace \cup {Quote}}
             e == IF stops = {} THEN Len(s)
                  ELSE (CHOOSE q \in stops : \A o \in stops : q <= o) - 1
         IN  ReferenceTokens(s, e + 1, Append(acc, SubSeq(s, p, e)))

\* C12: commandComponents returns the tokens of the reference splitter, in
\* order: maximal runs of characters that are neither whitespace nor a double
\* quote, and the contents of the quoted runs; nothing for the empty string.
C12_TokensOfReferenceSplitter ==
    tokenized =>
        /\ components = ReferenceTokens(input, 1, <<>>)
        /\ input = <<>> => components = <<>>
        /\ input = <<"a", " ", Quote, "b", " ", "c", Quote, " ", "d">> =>
              components = << <<"a">>, <<"b", " ", "c">>, <<"d">> >>
        /\ input = <<"g", "i", "t", " ", "s", "t", "a", "t", "u", "s", " ", "-", "s">> =>
              components = << <<"g", "i", "t">>, <<"s", "t", "a", "t", "u", "s">>,
                              <<"-", "s">> >>

\* C13: no token commandComponents returns contains a double quote, a quoted
\* run with empty contents included.
C13_QuotesStripped ==
    tokenized =>
        \A t \in DOMAIN components :
            \A c \in DOMAIN components[t] : components[t][c] # Quote

----------------------------------------------------------------------------
(* Any caller: the functions a caller supplies may throw, a transformation *)
(* may return an object of the base type, the block formatter is given any *)
(* header, and a structured command may hold any arguments.                *)

\* What a caller's blockHeader function returns.
HeaderChoices ==
    [headerText : {"absent", "text"}, hideBlock : BOOLEAN,
     separatorText : {"absent", "empty", "text"}]

\* The hooks: none, those of the block formatter called with no override, or
\* a caller's own that throw.
FormatterChoices(r) ==
    {EmptyObject, "onDryRun" :> Fn("throws"), "onCmdComplete" :> Fn("throws")}
    \cup {BlockOutputOptions(r, h, EmptyObject) : h \in HeaderChoices}

AnyTransformationChoices(r, who) ==
    IF HasTransformation(r)
    THEN {EmptyObject} \cup
         {"enhanceRunShellCommandResult" :> Fn(f) : f \in {who, "rebuild", "throws"}}
    ELSE {EmptyObject}

\* Commands as strings, one with a quoted run.
AnyStringCommands ==
    {StringCommand, [kind |-> "string", text |-> <<"g", " ", Quote, "a", " ", "b", Quote>>]}

\* Commands as objects: an argument with a blank in it, one with quotes in it.
AnyObjectCommands ==
    {[kind |-> "object", ref |-> 1, supplied |-> o] :
        o \in {CallerRunOptions,
               [cmd |-> << <<"g">>, <<"a", " ", "b">> >>, cwd |-> "dir"],
               [cmd |-> << <<"g">>, <<Quote, "a", Quote>> >>, env |-> "vars"]}}

AnyRunCalls(r) ==
    {[fn |-> "runShellCommand", command |-> c, rsCmdOpts |-> Spread(Spread(d, h), x)] :
        c \in AnyStringCommands \cup AnyObjectCommands,
        d \in DryRunChoices, h \in FormatterChoices(r),
        x \in AnyTransformationChoices(r, "callFn")}

\* The filter rejects one entry, or throws at one entry.
AnyFilterChoices(n) ==
    {EmptyObject} \cup {"entryFilter" :> {e} : e \in 1..n}
                  \cup {"entryFilter" :> {0 - e} : e \in 1..n}

AnyContextEnhancerChoices(r) ==
    IF HasContextEnhancer(r)
    THEN {EmptyObject} \cup {"enhanceWalkEntryContext" :> Fn(f) : f \in {"walkFn", "throws"}}
    ELSE {EmptyObject}

AnyWalkTransformationChoices(r) ==
    IF HasTransformation(r)
    THEN {EmptyObject, "enhanceRunShellCommandResult" :> Fn("throws")}
    ELSE {EmptyObject}

AnyWalkOptionChoices(r, n) ==
    {Spread(Spread(Spread(Spread(d, x), f), b), c) :
        d \in {EmptyObject, "dryRun" :> TRUE},
        x \in AnyWalkTransformationChoices(r),
        f \in AnyFilterChoices(n), b \in ObserverChoices(r),
        c \in AnyContextEnhancerChoices(r)}

\* The supplier returns a bare command or a pair for every entry, or throws.
AnySupplierChoices(r) ==
    {[returns |-> "bare", override |-> EmptyObject],
     [returns |-> "throws", override |-> EmptyObject],
     [returns |-> "pair", override |-> EmptyObject]}
    \cup {[returns |-> "pair", override |-> x] :
             x \in AnyWalkTransformationChoices(r)}

AnyWalkCalls(r) ==
    UNION {{[fn |-> "walkShellCommand", walkEntries |-> n, command |-> c,
             walkShellOptions |-> w] :
               c \in AnySupplierChoices(r), w \in AnyWalkOptionChoices(r, n)} :
           n \in 0..MaxEntries}

InitAnyCaller ==
    /\ TokensIdle
    /\ ServiceIdle
    /\ rev \in Revisions
    /\ call \in AnyRunCalls(rev) \cup AnyWalkCalls(rev)
    /\ heap = IF call.fn = "runShellCommand" /\ call.command.kind = "object"
              THEN <<call.command.supplied>> ELSE <<>>
    /\ fileIndex = 0
    /\ filteredIndex = 0
    /\ wpc = IF call.fn = "walkShellCommand" THEN "loop" ELSE "none"
    /\ rpc = "idle"
    /\ cur = NoFrame
    /\ procs = <<>>
    /\ result = NoResult
    /\ walkResult = NoResult
    /\ log = <<>>
    /\ stdoutW = <<>>
    /\ stderrW = <<>>
    /\ FirstCall

SpecAnyCaller == InitAnyCaller /\ [][Next]_vars

\* C11: whatever runShellCommand returns satisfies isDryRunResult exactly
\* when the run had dryRun set and isExecutionResult exactly when it did not,
\* with or without a transformation of the result.
C11_DiscriminableByTag ==
    \A i \in Invocations :
        Resolved(i) =>
            LET r == ReturnedOf(i)
                dry == DryRunSet(OptionsOf(i))
            IN  /\ isDryRunResult(r) <=> dry
                /\ isExecutionResult(r) <=> ~dry

\* C14: the onCmdComplete the block formatter builds, called with no override,
\* writes to one stream only, Deno.stdout when the exit code is 0 and
\* Deno.stderr otherwise: the header text if there is one, then, unless
\* hideBlock is set, the captured stdout when the code is 0 and the captured
\* stderr otherwise, then the separator text if there is one.  (An empty
\* separator text has nothing to write.)
C14_OnCompleteWritesOneStream ==
    ( /\ call.fn = "runShellCommand"
      /\ rpc = "resolved"
      /\ ~DryRunSet(call.rsCmdOpts)
      /\ Has(call.rsCmdOpts, "onCmdComplete")
      /\ call.rsCmdOpts["onCmdComplete"].fn = "block" ) =>
        LET h == call.rsCmdOpts["onCmdComplete"].header
            ok == result["code"] = 0
            head == If(h.headerText = "text", "header")
            body == If(~h.hideBlock, IF ok THEN "stdOut" ELSE "stdErrOutput")
            seps == IF h.separatorText = "text" THEN {<<"sep">>}
                    ELSE IF h.separatorText = "absent" THEN {<<>>}
                    ELSE {<<>>, <<"sep">>}
            chosen == IF ok THEN stdoutW ELSE stderrW
            other == IF ok THEN stderrW ELSE stdoutW
        IN  /\ other = <<>>
            /\ \E s \in seps : chosen = head \o body \o s

\* C16: when the entry filter, the context enhancer, the command supplier or
\* the result transformation throws during a walk, nothing is done after it:
\* no hook, no observer, no later entry, no walk result; walkShellCommand
\* rejects at that entry.
C16_CallbackErrorsPropagate ==
    IsWalk =>
        \A p \in DOMAIN log :
            log[p].ev = "throw" =>
                LET e == log[p].i
                IN  /\ p = Len(log)
                    /\ wpc \in {"await", "rejected"}
                    /\ (wpc = "await") =>
                          (rpc = "rejected" /\ ENABLED WalkAbort /\ ~ENABLED WalkResume)
                    /\ ~ENABLED WalkEntry
                    /\ ~ENABLED WalkReturn
                    /\ fileIndex = e - 1
                    /\ walkResult = NoResult
                    /\ ~Resolved(e)
                    /\ At("onDryRun", e) \cup At("onCmdComplete", e) \cup At("observe", e) = {}
                    /\ \A q \in DOMAIN log : log[q].i <= e

\* A walk over two entries has rejected at the first, where the filter, the
\* enhancer, the supplier or the transformation threw.
C16_Witness ==
    /\ IsWalk
    /\ wpc = "rejected"
    /\ call.walkEntries = 2
    /\ log # <<>>
    /\ log[Len(log)].ev = "throw"
    /\ log[Len(log)].i = 1

\* C17: the command specification runShellCommand spawns and records is, for
\* a string command, a new object whose argument list is
\* commandComponents(string), and for a structured command the caller's own
\* object with the argument list, working directory and environment it was
\* given: an argument with a blank or a quote in it stays one argument.
C17_OnlyStringsTokenized ==
    (cur.ref # 0) =>
        LET obj == heap[cur.ref]
        IN  /\ (rpc = "resolved") => RunOptsOf(result) = cur.ref
            /\ IF IsWalk
               THEN obj["cmd"] = commandComponents(StringCommand.text)
               ELSE IF call.command.kind = "string"
               THEN /\ obj["cmd"] = commandComponents(call.command.text)
                    /\ ~Has(obj, "cwd")
                    /\ ~Has(obj, "env")
               ELSE /\ cur.ref = call.command.ref
                    /\ \A k \in {"cmd", "cwd", "env"} :
                          /\ Has(obj, k) <=> Has(call.command.supplied, k)
                          /\ Has(obj, k) => obj[k] = call.command.supplied[k]

\* A structured command with a blank in its second argument has been
\* executed, and the result records two arguments.
C17_Witness ==
    /\ call.fn = "runShellCommand"
    /\ call.command.kind = "object"
    /\ call.command.supplied["cmd"][2] = <<"a", " ", "b">>
    /\ rpc = "resolved"
    /\ isExecutionResult(result)
    /\ Len(heap[RunOptsOf(result)]["cmd"]) = 2

----------------------------------------------------------------------------
(* startListenableService: the service is started when the function        *)
(* returns; its caller then calls waitForListener and stop.                *)

\* Largest timeout a caller passes to waitForListener.
MaxTimeoutMS == 1000

TimeoutChoices == {t \in 0..MaxTimeoutMS : t % 125 = 0}

\* const waitTime = 250
waitTime == 250

\* The state when startListenableService returns: the child runs, nothing
\* has settled statusPromise yet.
InitService ==
    /\ ShellIdle
    /\ TokensIdle
    /\ timeoutMS \in TimeoutChoices
    /\ waited = 0
    /\ listenPc = "idle"
    /\ process = [state |-> "running", killed |-> FALSE, closed |-> 0]
    /\ serviceIsRunning = TRUE
    /\ statusPromise = "pending"
    /\ stopPc = "idle"
    /\ events = <<"run">>

\* The child exits, of itself or killed.
ServiceExit ==
    /\ process.state = "running"
    /\ process' = [process EXCEPT !.state = "exited"]
    /\ events' = Append(events, "exit")
    /\ UNCHANGED <<shellVars, tokenVars, timeoutMS, waited, listenPc,
                   serviceIsRunning, statusPromise, stopPc>>

\* Mutant: the then-callback settles the promise and leaves the flag set.
StatusSettlesFlagKept ==
    /\ process.state = "exited"
    /\ statusPromise = "pending"
    /\ serviceIsRunning' = serviceIsRunning
    /\ statusPromise' = "settled"
    /\ events' = Append(events, "settled")
    /\ UNCHANGED <<shellVars, tokenVars, timeoutMS, waited, listenPc, process, stopPc>>

\* p.status().then(() => { serviceIsRunning = false })
StatusSettles ==
    /\ process.state = "exited"
    /\ statusPromise = "pending"
    /\ serviceIsRunning' = FALSE
    /\ statusPromise' = "settled"
    /\ events' = Append(events, "settled")
    /\ UNCHANGED <<shellVars, tokenVars, timeoutMS, waited, listenPc, process, stopPc>>

\* waitForListener(timeoutMS) is called: up to the first await Deno.connect.
WaitForListener ==
    /\ listenPc = "idle"
    /\ listenPc' = "connect"
    /\ waited' = 0
    /\ UNCHANGED <<shellVars, tokenVars, timeoutMS, process, serviceIsRunning,
                   statusPromise, stopPc, events>>

\* Deno.connect settles: connected, the function returns true; refused, it
\* sleeps waitTime and returns false once it has waited longer than timeoutMS.
Connect ==
    /\ listenPc = "connect"
    /\ \E connected \in BOOLEAN :
          IF connected
          THEN /\ listenPc' = "true"
               /\ waited' = waited
               /\ events' = Append(events, "connected")
          ELSE /\ waited' = waited + waitTime
               /\ listenPc' = IF waited' > timeoutMS THEN "false" ELSE "connect"
               /\ events' = Append(events, "refused")
    /\ UNCHANGED <<shellVars, tokenVars, timeoutMS, process, serviceIsRunning,
                   statusPromise, stopPc>>

\* stop() is called: Deno.kill(p.pid, SIGKILL), up to await statusPromise.
\* Killing a child whose exit was already collected may throw.
Stop ==
    /\ stopPc = "idle"
    /\ \E thrown \in {FALSE, statusPromise = "settled"} :
          IF thrown
          THEN /\ stopPc' = "rejected"
               /\ process' = process
               /\ events' = Append(events, "killFailed")
          ELSE /\ stopPc' = "await"
               /\ process' = [process EXCEPT !.killed = TRUE]
               /\ events' = Append(events, "kill")
    /\ UNCHANGED <<shellVars, tokenVars, timeoutMS, waited, listenPc,
                   serviceIsRunning, statusPromise>>

\* Mutant: statusPromise is not awaited, the handle is closed after the kill.
StopResumeNotAwaited ==
    /\ stopPc = "await"
    /\ process' = [process EXCEPT !.closed = @ + 1]
    /\ stopPc' = "resolved"
    /\ events' = events \o <<"close", "stopped">>
    /\ UNCHANGED <<shellVars, tokenVars, timeoutMS, waited, listenPc,
                   serviceIsRunning, statusPromise>>

\* await statusPromise is over: p.close(), and stop() resolves.
StopResume ==
    /\ stopPc = "await"
    /\ statusPromise = "settled"
    /\ process' = [process EXCEPT !.closed = @ + 1]
    /\ stopPc' = "resolved"
    /\ events' = events \o <<"close", "stopped">>
    /\ UNCHANGED <<shellVars, tokenVars, timeoutMS, waited, listenPc,
                   serviceIsRunning, statusPromise>>

NextService ==
    \/ ServiceExit
    \/ StatusSettles
    \/ WaitForListener
    \/ Connect
    \/ Stop
    \/ StopResume

SpecService == InitService /\ [][NextService]_vars

\* The positions of an event in events.
When(ev) == {p \in DOMAIN events : events[p] = ev}

C19_BoundedPolling ==
    /\ waited = waitTime * Cardinality(When("refused"))
    /\ (listenPc = "true") =>
          /\ Cardinality(When("connected")) = 1
          /\ \A c \in When("connected") : \A r \in When("refused") : r < c
    /\ (listenPc = "connect") => When("connected") = {}
    /\ (listenPc = "false") =>
          /\ When("connected") = {}
          /\ waited <= timeoutMS

Letters(s) == SelectSeq(s, LAMBDA c : c \notin Whitespace /\ c # Quote)

\* All the tokens, one after the other.
RECURSIVE Flatten(_)
Flatten(tokens) ==
    IF tokens = <<>> THEN <<>> ELSE Head(tokens) \o Flatten(Tail(tokens))

\* The positions of the double quotes of s.
Quotes(s) == {p \in DOMAIN s : s[p] = Quote}

\* The last double quote of s is unterminated: the quotes pair up from the
\* left and their number is odd.
Unterminated(s) == Cardinality(Quotes(s)) % 2 = 1

\* C22: for an input with an unterminated double quote commandComponents
\* returns (it does not throw); the stray quote is dropped and the characters
\* after it are tokens like any others, split at whitespace: no character is
\* lost but whitespace and the stray quote.
C22_UnterminatedQuotePermissive ==
    (tokenized /\ Unterminated(input)) =>
        LET stray == CHOOSE q \in Quotes(input) : \A o \in Quotes(input) : o <= q
            before == SubSeq(input, 1, stray - 1)
            after == SubSeq(input, stray + 1, Len(input))
        IN  /\ Letters(Flatten(components)) = Letters(input)
            /\ components = commandComponents(before) \o ReferenceTokens(after, 1, <<>>)
            /\ Letters(Flatten(ReferenceTokens(after, 1, <<>>))) = Letters(after)

\* A quote that is never closed, followed by two words: both are returned.
C22_Witness ==
    /\ tokenized
    /\ input = <<Quote, "a", " ", "a">>
    /\ components = << <<"a">>, <<"a">> >>

\* C24: the handle of every child runShellCommand has spawned is closed
\* once, and before the invocation resolves or rejects, also when the
\* transformation or onCmdComplete throws.
C24_HandleClosedOnce ==
    \A k \in DOMAIN procs :
        LET i == procs[k].i
            running == cur.i = i /\ rpc \in {"status", "output", "stderrOutput"}
        IN  /\ procs[k].closed <= 1
            /\ procs[k].closed = Cardinality(At("close", i))
            /\ ~running => procs[k].closed = 1
            /\ \A r \in At("resolve", i) : \E c \in At("close", i) : c < r

----------------------------------------------------------------------------
(* One caller calls runShellCommand again with the same command, and the   *)
(* children write their stdout through a pipe of bounded capacity.         *)

\* Calls of runShellCommand one caller makes in a row.
MaxCalls == 2

\* Chunks a pipe holds before a write to it blocks.
PipeCapacity == 2

\* Most chunks a child writes to its stdout.
MaxOutput == 4

RunnerCalls ==
    {[fn |-> "runShellCommand", command |-> c, rsCmdOpts |-> Spread(d, h)] :
        c \in {StringCommand} \cup AnyObjectCommands,
        d \in {EmptyObject, "dryRun" :> TRUE},
        h \in {EmptyObject, quietShellOutputOptions}}

InitRunner ==
    /\ TokensIdle
    /\ ServiceIdle
    /\ rev \in Revisions
    /\ call \in RunnerCalls
    /\ heap = IF call.command.kind = "object" THEN <<call.command.supplied>> ELSE <<>>
    /\ fileIndex = 0
    /\ filteredIndex = 0
    /\ wpc = "none"
    /\ rpc = "idle"
    /\ cur = NoFrame
    /\ procs = <<>>
    /\ result = NoResult
    /\ walkResult = NoResult
    /\ log = <<>>
    /\ stdoutW = <<>>
    /\ stderrW = <<>>
    /\ earlierResults = <<>>
    /\ toWrite \in 0..MaxOutput
    /\ pipe = 0

\* The caller, having got a result, calls runShellCommand again with the same
\* command (the same object, when it is one) and the same hooks, as a dry run
\* or not.
CallRunAgain ==
    /\ call.fn = "runShellCommand"
    /\ rpc = "resolved"
    /\ Len(earlierResults) + 1 < MaxCalls
    /\ earlierResults' = Append(earlierResults,
                                [result |-> result,
                                 denoRunOpts |-> heap[RunOptsOf(result)]])
    /\ \E d \in {"dryRun" :> TRUE, "dryRun" :> FALSE} :
          RunShellCommand(Len(earlierResults) + 1, NoContext, call.command,
                          Spread(call.rsCmdOpts, d), log)
    /\ toWrite' \in 0..MaxOutput
    /\ pipe' = 0
    /\ UNCHANGED <<tokenVars, serviceVars, rev, call, fileIndex, filteredIndex,
                   wpc, walkResult>>

\* The child writes a chunk to its stdout: there must be room in the pipe.
ChildWrites ==
    /\ Len(procs) > 0
    /\ Proc.state = "running"
    /\ toWrite > 0
    /\ pipe < PipeCapacity
    /\ toWrite' = toWrite - 1
    /\ pipe' = pipe + 1
    /\ UNCHANGED <<tokenVars, serviceVars, earlierResults, rev, call, heap,
                   fileIndex, filteredIndex, wpc, rpc, cur, procs, result,
                   walkResult, log, stdoutW, stderrW>>

NextRunner ==
    \/ CallRun
    \/ CallRunAgain
    \/ ChildWrites
    \/ ChildExit
    \/ AwaitStatus
    \/ AwaitOutput
    \/ AwaitStderrOutput

SpecRunner == InitRunner /\ [][NextRunner]_vars


----------------------------------------------------------------------------
(* Claims about repeated calls and about the pipe.                         *)

\* The command specification an earlier result had when it was returned is the
\* one it has now.
EarlierResultsKept ==
    \A k \in DOMAIN earlierResults :
        heap[RunOptsOf(earlierResults[k].result)] = earlierResults[k].denoRunOpts

\* The object the caller passed in is as the caller supplied it.
CallerObjectKept ==
    call.command.kind = "object" => heap[call.command.ref] = call.command.supplied

\* Two dry runs of one specification have the same command specification.
DryRunsAgree ==
    \A k \in DOMAIN earlierResults :
        (/\ rpc = "resolved"
         /\ isDryRunResult(earlierResults[k].result)
         /\ isDryRunResult(result))
        => heap[RunOptsOf(result)] = earlierResults[k].denoRunOpts

\* C21: a result is immutable once constructed: no later call of
\* runShellCommand with the same command-specification object changes the
\* command specification of an earlier result, runShellCommand never modifies
\* the object the caller passed in, and two dry runs of one specification
\* yield identical command-specification fields.
C21_ResultImmutable ==
    /\ EarlierResultsKept
    /\ CallerObjectKept
    /\ DryRunsAgree

\* The runner waits for the exit of a child that waits for room in the pipe.
RunnerAndChildWait ==
    /\ rpc = "status"
    /\ Proc.state = "running"
    /\ toWrite > 0
    /\ pipe = PipeCapacity

\* C23: a non-dry runShellCommand resolves with the full output whatever the
\* amount of output relative to the capacity of the pipe: waiting for the exit
\* status first and reading the output afterwards never leaves the runner
\* waiting for an exit while the child waits for its output to be read.
C23_StatusBeforeOutputNeverBlocks ==
    ~RunnerAndChildWait

====
